---------------------------- MODULE Spec2Model ----------------------------
(***************************************************************************)
(* Session aggregation engine of backend/vision-service/main.py:           *)
(* SessionState (bounded rolling histories, phase map, temporal            *)
(* snapshots), the per-frame metric extractors of VisionProcessor, the     *)
(* session registry with its two sweeps, and the session endpoints; the    *)
(* nonce store of siwe_endpoints.py; the session table of                  *)
(* main_production.py.                                                     *)
(*                                                                         *)
(* Numbers.  The code computes with floats; the model uses fixed point.    *)
(* Coordinates, breathing proxies and breathing rates are in hundredths    *)
(* (0.40 is 40, 12.0 is 1200), movement, posture and confidence are in     *)
(* hundredths too (1.0 is 100), stillness is in percent.  Time is in whole *)
(* seconds.  Divisions round down.                                         *)
(*                                                                         *)
(* Landmark sets.  A landmark set is modelled by its length n and the      *)
(* points at the indices the code reads (0, 1, 10 and 18); z is never read.*)
(* None and the empty list are both the set of length 0: the code tests    *)
(* them with "not landmarks" only.                                         *)
(***************************************************************************)
EXTENDS Integers, Sequences, FiniteSets, TLC

VARIABLES
    now,            \* time.time()
    sessions,       \* vision_processor.sessions: session_id -> SessionState
    last_cleanup,   \* vision_processor._last_cleanup
    sweep_due,      \* when the background task's asyncio.sleep(60) ends
    last_op,        \* history variable: the operation that ran last, with its result
    frames,         \* history variable: process_frame calls so far
    ticks,          \* history variable: clock advances so far
    cur,            \* the frame content the client sent last
    ai_response_cache,  \* ai_response_cache: session id of the key -> entry
    frame_task,     \* the process_frame coroutine that is running, if any
    nonce_store,    \* siwe_endpoints.nonce_store: nonce -> metadata
    siwe_hist,      \* history variable: nonces issued and consumed so far
    active_sessions,    \* main_production.active_sessions: session_id -> data
    prod_inflight   \* main_production: the frame requests awaiting file.read()

\* the variables of the parts of the service outside the session engine
other_vars == <<frame_task, nonce_store, siwe_hist, active_sessions, prod_inflight>>

vars == <<now, sessions, last_cleanup, sweep_due, last_op, frames, ticks, cur,
          ai_response_cache, frame_task, nonce_store, siwe_hist, active_sessions,
          prod_inflight>>

----------------------------------------------------------------------------
(* Bounds of the model *)

MaxFrames == 62

SegLen == 16

MaxRegFrames == 3

MaxTicks == 3

MaxApiFrames == 2

MaxFaultFrames == 22

MaxLoopFrames == 3

\* frames and clock steps of the runs around the summary cache
MaxCacheFrames == 2

MaxCacheTicks == 2

\* frames and clock steps of a run of main_production
MaxProdFrames == 2

MaxProdTicks == 1

\* challenges issued in a run of the SIWE endpoints, and its clock steps
MaxNonces == 2

MaxSiweTicks == 1

\* clock steps of the runs in which passes of the background task raise;
\* a pass raises only while the clock has a step left
MaxLiveTicks == 2

MaxApiTicks == 1

\* the clock advances by one of these: they reach the ages 300 and 3600
\* (the two expiry tests' limits) exactly, and ages on both sides of each
TickSteps == {100, 200, 3600}

ApiTickSteps == {100, 3600}

SessionIds == {"s1", "s2"}

StreamSid == "s1"

----------------------------------------------------------------------------
(* Program constants *)

\* CONFIG["max_concurrent_sessions"] = int(os.getenv("MAX_CONCURRENT_SESSIONS", "10")):
\* the service is run with MAX_CONCURRENT_SESSIONS=1
max_concurrent_sessions == 1

session_timeout == 300

cleanup_interval == 300

hour == 3600

sweep_sleep == 60

landmark_maxlen == 30

breathing_maxlen == 100

movement_maxlen == 50

confidence_maxlen == 50

posture_maxlen == 50

snapshot_every == 30

min_breathing_landmarks == 30

min_breathing_samples == 20

min_posture_landmarks == 20

detected_confidence == 90

\* _calculate_consistency needs 5 samples
min_consistency_samples == 5

\* a movement level below 0.2 counts as still
still_below == 20

\* _calculate_stability_trend: a change of more than 5 points is a trend
trend_margin == 5

\* the summary endpoint serves a cached summary younger than 60 seconds
summary_cache_ttl == 60

None == -1

----------------------------------------------------------------------------
(* Arithmetic helpers *)

Min(a, b) == IF a < b THEN a ELSE b

Max(a, b) == IF a > b THEN a ELSE b

Abs(a) == IF a < 0 THEN -a ELSE a

\* np.sqrt of dx**2 + dy**2, rounded down; the root is at most |dx| + |dy|
Displacement(dx, dy) ==
    CHOOSE r \in 0..(Abs(dx) + Abs(dy)) :
        r * r <= dx * dx + dy * dy /\ (r + 1) * (r + 1) > dx * dx + dy * dy

RECURSIVE Sum(_)
Sum(s) == IF s = <<>> THEN 0 ELSE Head(s) + Sum(Tail(s))

RECURSIVE SumSq(_)
SumSq(s) == IF s = <<>> THEN 0 ELSE Head(s) * Head(s) + SumSq(Tail(s))

Range(s) == {s[i] : i \in 1..Len(s)}

\* list(d)[-k:]
LastK(s, k) == IF Len(s) <= k THEN s ELSE SubSeq(s, Len(s) - k + 1, Len(s))

\* len(xs)**2 * np.var(xs), in hundredths squared
VarTimesNSq(xs) == Len(xs) * SumSq(xs) - Sum(xs) * Sum(xs)


----------------------------------------------------------------------------
(* Landmark sets and frame contents *)

KeyIndices == {0, 1, 10, 18}

Point(x, y) == [x |-> x, y |-> y]

\* a landmark set of n points: index 1 (the nose tip) at nose, the others at rest
Face(n, nose, rest) ==
    [n |-> n,
     at |-> [i \in {k \in KeyIndices : k < n} |-> IF i = 1 THEN nose ELSE rest]]

\* None, or the empty list face_mesh returns when it detects no face
NoLandmarks == [n |-> 0, at |-> <<>>]

FaceA == Face(30, Point(50, 40), Point(50, 50))

FaceB == Face(30, Point(50, 41), Point(50, 50))

FaceCoarse == Face(20, Point(48, 40), Point(50, 50))

\* request.breathing_phase: None, or a label
PhaseNone == "None"

Truthy(phase) == phase # PhaseNone /\ phase # ""

(* A frame request as the service sees it.  faults names the steps of
   process_frame that raise for this frame: "session" (the session lookup),
   "detect" (colour conversion or the face mesh), "movement", "posture",
   "breathing" (the variance in _estimate_breathing_rate); an undecodable
   image is decodable = FALSE. *)
Frame(decodable, face, phase, detect_face, analyze_posture, track_breathing) ==
    [decodable |-> decodable, face |-> face, phase |-> phase,
     detect_face |-> detect_face, analyze_posture |-> analyze_posture,
     track_breathing |-> track_breathing, faults |-> {}]

\* the frame request with the steps in faults raising
Faulty(frame, faults) == [frame EXCEPT !.faults = faults]

FrameInputs ==
    { Frame(TRUE, FaceA, "inhale", TRUE, TRUE, TRUE),
      Frame(TRUE, FaceB, "exhale", TRUE, TRUE, TRUE),
      Frame(TRUE, FaceA, PhaseNone, FALSE, TRUE, TRUE),
      Frame(TRUE, FaceCoarse, "inhale", TRUE, TRUE, TRUE),
      Frame(TRUE, FaceB, "", TRUE, TRUE, FALSE),
      Frame(TRUE, NoLandmarks, "inhale", TRUE, TRUE, TRUE),
      Frame(FALSE, NoLandmarks, PhaseNone, TRUE, TRUE, TRUE) }

\* what the clients of the registry send
ClientInputs ==
    { Frame(TRUE, FaceA, "inhale", TRUE, TRUE, TRUE),
      Frame(FALSE, NoLandmarks, PhaseNone, TRUE, TRUE, TRUE) }

\* frames of a streamed session in which steps of process_frame raise
FaultInputs ==
    { Frame(TRUE, FaceA, "inhale", TRUE, TRUE, TRUE),
      Faulty(Frame(TRUE, FaceA, "inhale", TRUE, TRUE, TRUE), {"movement"}),
      Faulty(Frame(TRUE, FaceA, "inhale", TRUE, TRUE, TRUE), {"posture"}),
      Faulty(Frame(TRUE, FaceB, "exhale", TRUE, TRUE, TRUE), {"breathing"}),
      Faulty(Frame(TRUE, FaceB, "exhale", TRUE, TRUE, TRUE), {"posture", "breathing"}),
      Faulty(Frame(TRUE, FaceA, "inhale", TRUE, TRUE, TRUE), {"detect"}),
      Faulty(Frame(TRUE, FaceA, "inhale", TRUE, TRUE, TRUE), {"session"}),
      Frame(FALSE, NoLandmarks, PhaseNone, TRUE, TRUE, TRUE) }

----------------------------------------------------------------------------
(* SessionState *)

Histories ==
    {"landmark_history", "breathing_history", "movement_history",
     "confidence_history", "posture_history"}

\* deque(maxlen=...) of __post_init__
Maxlen(h) ==
    CASE h = "landmark_history" -> landmark_maxlen
      [] h = "breathing_history" -> breathing_maxlen
      [] h = "movement_history" -> movement_maxlen
      [] h = "confidence_history" -> confidence_maxlen
      [] h = "posture_history" -> posture_maxlen

\* mutant: the deque has no maxlen
deque_append_unbounded(d, v, maxlen) == Append(d, v)

\* mutant: a full deque refuses the new item
deque_append_keeps_oldest(d, v, maxlen) ==
    IF Len(d) >= maxlen THEN d ELSE Append(d, v)

\* deque.append on a deque(maxlen=maxlen): a full deque drops its oldest item
deque_append(d, v, maxlen) ==
    IF Len(d) >= maxlen THEN Append(Tail(d), v) ELSE Append(d, v)

(* SessionState(session_id=...) at time t.  The field ghost is a history
   record the code does not have: every value ever appended to each rolling
   history, what each breathing_history append was (a nostril-area proxy or
   an estimated rate), the proxies the estimator stored, the number of
   add_frame_metrics calls, the phase of each of them, the time of the
   last process_frame call and whether all gaps between calls stayed below
   session_timeout. *)
NewSession(sid, t) ==
    [session_id |-> sid,
     last_landmarks |-> NoLandmarks,
     landmark_history |-> <<>>,
     breathing_history |-> <<>>,
     movement_history |-> <<>>,
     confidence_history |-> <<>>,
     posture_history |-> <<>>,
     created_at |-> t,
     phase_movement_map |-> <<>>,
     temporal_snapshots |-> <<>>,
     ghost |-> [appended |-> [h \in Histories |-> <<>>],
                breathing_kind |-> <<>>,
                proxies |-> <<>>,
                ingested |-> 0,
                phases |-> <<>>,
                last_frame_at |-> t,
                steady |-> TRUE]]

\* session.<h>.append(v)
Push(s, h, v) ==
    [s EXCEPT ![h] = deque_append(@, v, Maxlen(h)),
              !.ghost.appended[h] = Append(@, v)]

\* session.breathing_history.append(v), remembering what v is
PushBreathing(s, v, kind) ==
    [Push(s, "breathing_history", v) EXCEPT
        !.ghost.breathing_kind = Append(@, kind),
        !.ghost.proxies = IF kind = "proxy" THEN Append(@, v) ELSE @]

\* mutant: phases are recorded whatever the label is
track_phase_any_label(map, phase, movement) ==
    IF phase \in DOMAIN map
    THEN [map EXCEPT ![phase] = Append(@, movement)]
    ELSE (phase :> <<movement>>) @@ map

\* mutant: a snapshot is taken at every tenth length of movement_history
take_snapshot_every_tenth(s, confidence, movement, t) ==
    IF Len(s.movement_history) % 10 = 0
    THEN [s EXCEPT !.temporal_snapshots =
              Append(@, [timestamp |-> t - s.created_at,
                         stillness |-> 100 - movement,
                         confidence |-> confidence])]
    ELSE s

\* mutant: ingesting a frame restarts the session's age
take_snapshot_restarting_age(s, confidence, movement, t) ==
    IF Len(s.movement_history) % snapshot_every = 0
    THEN [s EXCEPT !.temporal_snapshots =
              Append(@, [timestamp |-> t - s.created_at,
                         stillness |-> 100 - movement,
                         confidence |-> confidence]),
                   !.created_at = t]
    ELSE [s EXCEPT !.created_at = t]

\* the phase_movement_map update of add_frame_metrics
track_phase(map, phase, movement) ==
    IF ~Truthy(phase) THEN map
    ELSE IF phase \in DOMAIN map
         THEN [map EXCEPT ![phase] = Append(@, movement)]
         ELSE (phase :> <<movement>>) @@ map

\* the temporal snapshot step of add_frame_metrics
take_snapshot(s, confidence, movement, t) ==
    IF Len(s.movement_history) % snapshot_every = 0
    THEN [s EXCEPT !.temporal_snapshots =
              Append(@, [timestamp |-> t - s.created_at,
                         stillness |-> 100 - movement,
                         confidence |-> confidence])]
    ELSE s

\* SessionState.add_frame_metrics at time t
add_frame_metrics(s, confidence, posture, movement, breathing, phase, t) ==
    LET s1 == Push(s, "confidence_history", confidence)
        s2 == Push(s1, "posture_history", posture)
        s3 == Push(s2, "movement_history", movement)
        s4 == IF breathing # None THEN PushBreathing(s3, breathing, "rate") ELSE s3
        s5 == [s4 EXCEPT !.phase_movement_map = track_phase(@, phase, movement),
                         !.ghost.ingested = @ + 1,
                         !.ghost.phases = Append(@, phase)]
    IN  take_snapshot(s5, confidence, movement, t)

RECURSIVE SumSqDev(_, _)
\* sum((r - mean) ** 2 for r in rates)
SumSqDev(rates, mean) ==
    IF rates = <<>> THEN 0
    ELSE (Head(rates) - mean) * (Head(rates) - mean) + SumSqDev(Tail(rates), mean)

\* mutant: a consistency score is computed from fewer than 5 samples too
calculate_consistency_without_minimum(s) ==
    LET rates == s.breathing_history
        mean_rate == IF rates = <<>> THEN 0 ELSE Sum(rates) \div Len(rates)
        variance == IF rates = <<>> THEN 0 ELSE SumSqDev(rates, mean_rate) \div Len(rates)
    IN  Min(10000, Max(0, 10000 - variance \div 10))

(* SessionState._calculate_consistency, the score in hundredths of a point.
   The entries of breathing_history are hundredths, so the variance is in
   hundredths squared: 100 - variance * 10 is 10000 - variance div 10.  The
   mean is rounded down to a hundredth. *)
calculate_consistency(s) ==
    IF Len(s.breathing_history) < min_consistency_samples THEN 0
    ELSE LET rates == s.breathing_history
             mean_rate == Sum(rates) \div Len(rates)
             variance == SumSqDev(rates, mean_rate) \div Len(rates)
         IN  Min(10000, Max(0, 10000 - variance \div 10))

\* sum(h) / len(h) if h else empty
Average(h, empty) == IF h = <<>> THEN empty ELSE Sum(h) \div Len(h)

\* mutant: total_frames counts the confidence samples
get_session_summary_counting_confidence(s, t) ==
    [session_id |-> s.session_id,
     duration |-> t - s.created_at,
     total_frames |-> Len(s.confidence_history),
     avg_confidence |-> Average(s.confidence_history, 0),
     avg_posture_score |-> Average(s.posture_history, 0),
     avg_movement_level |-> Average(s.movement_history, 0),
     avg_breathing_rate |-> Average(s.breathing_history, None),
     stillness_percentage |->
         IF s.movement_history = <<>> THEN 0
         ELSE (Cardinality({i \in 1..Len(s.movement_history) :
                              s.movement_history[i] < still_below}) * 100)
                  \div Len(s.movement_history),
     consistency_score |-> calculate_consistency(s)]

(* SessionState.get_session_summary at time t.  The averages are in
   hundredths, rounded down; stillness_percentage is a whole percentage,
   rounded down. *)
get_session_summary(s, t) ==
    [session_id |-> s.session_id,
     duration |-> t - s.created_at,
     total_frames |-> Len(s.landmark_history),
     avg_confidence |-> Average(s.confidence_history, 0),
     avg_posture_score |-> Average(s.posture_history, 0),
     avg_movement_level |-> Average(s.movement_history, 0),
     avg_breathing_rate |-> Average(s.breathing_history, None),
     stillness_percentage |->
         IF s.movement_history = <<>> THEN 0
         ELSE (Cardinality({i \in 1..Len(s.movement_history) :
                              s.movement_history[i] < still_below}) * 100)
                  \div Len(s.movement_history),
     consistency_score |-> calculate_consistency(s)]

\* np.std(xs) in hundredths, rounded down, for values of at most 1.0
StdDev(xs) ==
    LET n == Len(xs)
    IN  CHOOSE r \in 0..100 :
            /\ (r * n) * (r * n) <= VarTimesNSq(xs)
            /\ VarTimesNSq(xs) < ((r + 1) * n) * ((r + 1) * n)

\* SessionState._calculate_stability_trend
calculate_stability_trend(s) ==
    LET n == Len(s.temporal_snapshots)
        half == n \div 2
        stillness == [i \in 1..n |-> s.temporal_snapshots[i].stillness]
        first == Sum(SubSeq(stillness, 1, half))
        second == Sum(SubSeq(stillness, half + 1, n))
    IN  IF n < 2 THEN "insufficient_data"
        ELSE IF second * half > first * (n - half) + trend_margin * half * (n - half)
             THEN "improving"
        ELSE IF second * half < first * (n - half) - trend_margin * half * (n - half)
             THEN "declining"
        ELSE "stable"

(* SessionState.get_enhanced_summary at time t: the keys of the base summary
   and the added keys.  avg_stillness is a percentage (the mean rounded down to a
   hundredth), consistency is in hundredths. *)
get_enhanced_summary(s, t) ==
    get_session_summary(s, t) @@
    [phase_analysis |->
         [phase \in {ph \in DOMAIN s.phase_movement_map :
                        s.phase_movement_map[ph] # <<>>} |->
             LET movements == s.phase_movement_map[phase]
             IN  [avg_stillness |-> 100 - Sum(movements) \div Len(movements),
                  consistency |->
                      Max(0, 100 - (IF Len(movements) > 1 THEN StdDev(movements) ELSE 0)),
                  sample_count |-> Len(movements)]],
     temporal_progression |-> s.temporal_snapshots,
     movement_pattern |->
         [peak_movement |->
              IF s.movement_history = <<>> THEN 0
              ELSE CHOOSE m \in Range(s.movement_history) :
                       \A other \in Range(s.movement_history) : other <= m,
          stability_trend |-> calculate_stability_trend(s)]]

----------------------------------------------------------------------------
(* VisionProcessor: the frame metric extractors.  An extractor that touches
   the session returns ret (its return value) and session (the session as the
   call leaves it). *)

\* landmarks[1] if len(landmarks) > 1 else landmarks[0]
nose_tip(landmarks) == IF landmarks.n > 1 THEN landmarks.at[1] ELSE landmarks.at[0]

\* VisionProcessor._calculate_movement_level
calculate_movement_level(current_landmarks, session) ==
    LET last == session.last_landmarks
        key_indices == IF current_landmarks.n > 18 THEN {1, 10, 18} ELSE {0}
        valid == {idx \in key_indices : idx < current_landmarks.n /\ idx < last.n}
        displacement(idx) ==
            IF idx \in valid
            THEN Displacement(current_landmarks.at[idx].x - last.at[idx].x,
                              current_landmarks.at[idx].y - last.at[idx].y)
            ELSE 0
        total_displacement ==
            displacement(0) + displacement(1) + displacement(10) + displacement(18)
        valid_points == Cardinality(valid)
        movement_level == Min((total_displacement * 100) \div valid_points, 100)
    IN  IF last.n = 0 \/ current_landmarks.n = 0
        THEN [ret |-> 0, session |-> session]
        ELSE IF current_landmarks.n # last.n
        THEN [ret |-> 0, session |-> session]
        ELSE IF valid_points = 0
        THEN [ret |-> 0, session |-> session]
        ELSE [ret |-> movement_level,
              session |-> Push(session, "movement_history", movement_level)]

\* VisionProcessor._calculate_posture_score
calculate_posture_score(landmarks) ==
    IF landmarks.n < min_posture_landmarks THEN 0
    ELSE LET x_deviation == Abs(nose_tip(landmarks).x - 50)
             y_deviation == Abs(nose_tip(landmarks).y - 40)
             posture_score == Max(0, (200 - (x_deviation * 4 + y_deviation * 3)) \div 2)
         IN  Min(posture_score, 100)

\* VisionProcessor._calculate_nostril_area
calculate_nostril_area(landmarks) == nose_tip(landmarks).y

\* mutant: the estimator does not wait for 20 samples
estimate_breathing_rate_no_cold_start(landmarks, session) ==
    IF landmarks.n < min_breathing_landmarks
    THEN [ret |-> None, session |-> session]
    ELSE LET stored == PushBreathing(session, calculate_nostril_area(landmarks), "proxy")
             recent_history == LastK(stored.breathing_history, min_breathing_samples)
             n == Len(recent_history)
         IN  [ret |-> Max(800, Min(2000, 1200 + VarTimesNSq(recent_history) \div (n * n))),
              session |-> stored]

\* VisionProcessor._estimate_breathing_rate
estimate_breathing_rate(landmarks, session) ==
    IF landmarks.n < min_breathing_landmarks
    THEN [ret |-> None, session |-> session]
    ELSE LET nostril_area == calculate_nostril_area(landmarks)
             stored == PushBreathing(session, nostril_area, "proxy")
             recent_history == LastK(stored.breathing_history, min_breathing_samples)
             n == Len(recent_history)
             estimated_rate ==
                 Max(800, Min(2000, 1200 + VarTimesNSq(recent_history) \div (n * n)))
         IN  IF Len(stored.breathing_history) < min_breathing_samples
             THEN [ret |-> None, session |-> stored]
             ELSE [ret |-> estimated_rate, session |-> stored]

\* an optional text that is None
NoText == "None"

(* _calculate_movement_level when the displacement computation raises for
   the frame: the function has no handler, so the exception leaves it
   (raised); the early returns come before the computation. *)
movement_step(landmarks, session, faults) ==
    IF /\ "movement" \in faults
       /\ session.last_landmarks.n # 0
       /\ landmarks.n # 0
       /\ landmarks.n = session.last_landmarks.n
    THEN [raised |-> TRUE, ret |-> 0, session |-> session]
    ELSE [raised |-> FALSE,
          ret |-> calculate_movement_level(landmarks, session).ret,
          session |-> calculate_movement_level(landmarks, session).session]

\* _calculate_posture_score when its try block raises: except returns 0.0
posture_step(landmarks, faults) ==
    IF "posture" \in faults /\ landmarks.n >= min_posture_landmarks
    THEN 0
    ELSE calculate_posture_score(landmarks)

(* _estimate_breathing_rate when np.var raises: the proxy is stored before,
   the variance is computed once 20 samples are there, except returns None *)
breathing_step(landmarks, session, faults) ==
    LET stored == PushBreathing(session, calculate_nostril_area(landmarks), "proxy")
    IN  IF /\ "breathing" \in faults
           /\ landmarks.n >= min_breathing_landmarks
           /\ Len(stored.breathing_history) >= min_breathing_samples
        THEN [ret |-> None, session |-> stored]
        ELSE estimate_breathing_rate(landmarks, session)

\* mutant: the handler of process_frame lets the exception through
frame_failed_reraising(sid, error) ==
    [success |-> FALSE, error |-> error, session_id |-> sid,
     face_detected |-> FALSE, confidence |-> 0,
     posture_score |-> 0, movement_level |-> 0,
     breathing_rate |-> None, landmarks_n |-> 0,
     ingested |-> FALSE, raised |-> TRUE]

(* the except clause of process_frame: the response for an exception with
   text error in the frame of session id sid; no metrics *)
frame_failed(sid, error) ==
    [success |-> FALSE, error |-> error, session_id |-> sid,
     face_detected |-> FALSE, confidence |-> 0,
     posture_score |-> 0, movement_level |-> 0,
     breathing_rate |-> None, landmarks_n |-> 0,
     ingested |-> FALSE, raised |-> FALSE]

(* The body of process_frame after _get_or_create_session returned session,
   at time t: the response and the session as the call leaves it.  The
   response carries success, error (NoText when there is none), the metrics,
   the number of landmarks it returns and history fields:
   appended_by_movement tells whether _calculate_movement_level itself
   changed movement_history, estimator_called whether
   _estimate_breathing_rate was called, proxy_stored whether it stored a
   proxy, samples the length of breathing_history when it returned, fetched
   the session as _get_or_create_session returned it, ingested whether
   add_frame_metrics ran, raised whether an exception left process_frame.
   stages is the session after each mutating step of the call, in the order
   of the code: as fetched, after _calculate_movement_level, after
   _estimate_breathing_rate, after the landmark update, after
   add_frame_metrics. *)
process_fetched(session, request, t) ==
    LET untouched == [appended_by_movement |-> FALSE, estimator_called |-> FALSE,
                      proxy_stored |-> FALSE,
                      samples |-> Len(session.breathing_history),
                      fetched |-> session]
        failed(error) == frame_failed(session.session_id, error) @@ untouched
        no_face == [success |-> TRUE, error |-> NoText,
                    session_id |-> session.session_id,
                    face_detected |-> FALSE, confidence |-> 0,
                    posture_score |-> 0, movement_level |-> 0,
                    breathing_rate |-> None, landmarks_n |-> 0,
                    ingested |-> FALSE, raised |-> FALSE] @@ untouched
        landmarks == request.face
        mv == IF request.detect_face
              THEN movement_step(landmarks, session, request.faults)
              ELSE [raised |-> FALSE, ret |-> 0, session |-> session]
        posture == IF request.analyze_posture
                   THEN posture_step(landmarks, request.faults) ELSE 0
        br == IF request.track_breathing
              THEN breathing_step(landmarks, mv.session, request.faults)
              ELSE [ret |-> None, session |-> mv.session]
        seen == [br.session EXCEPT
                    !.last_landmarks = landmarks,
                    !.landmark_history = deque_append(@, landmarks, landmark_maxlen),
                    !.ghost.appended["landmark_history"] = Append(@, landmarks)]
        added == add_frame_metrics(seen, detected_confidence, posture, mv.ret,
                                   br.ret, request.phase, t)
    IN  IF ~request.decodable
        THEN [ret |-> failed("400: Invalid image data"), session |-> session,
              stages |-> <<session>>]
        ELSE IF "detect" \in request.faults
        THEN [ret |-> failed("detect"), session |-> session,
              stages |-> <<session>>]
        ELSE IF landmarks.n = 0
        THEN [ret |-> no_face, session |-> session, stages |-> <<session>>]
        ELSE IF mv.raised
        THEN [ret |-> failed("movement"), session |-> session,
              stages |-> <<session>>]
        ELSE [ret |-> [success |-> TRUE, error |-> NoText,
                       session_id |-> session.session_id, face_detected |-> TRUE,
                       confidence |-> detected_confidence,
                       posture_score |-> posture, movement_level |-> mv.ret,
                       breathing_rate |-> br.ret,
                       landmarks_n |-> landmarks.n,
                       appended_by_movement |->
                           mv.session.movement_history # session.movement_history,
                       estimator_called |-> request.track_breathing,
                       proxy_stored |->
                           br.session.ghost.proxies # mv.session.ghost.proxies,
                       samples |-> Len(br.session.breathing_history),
                       fetched |-> session, ingested |-> TRUE, raised |-> FALSE],
              session |-> added,
              stages |-> <<session, mv.session, br.session, seen, added>>]

----------------------------------------------------------------------------
(* VisionProcessor: the session registry *)

Restrict(f, S) == [x \in S |-> f[x]]

\* the test of _cleanup_old_sessions: older than one hour
lazy_expired(session, t) == session.created_at < t - hour

\* mutant: a session is removed at the timeout already
background_expired_at_timeout(session, t) == t - session.created_at >= session_timeout

\* the test of cleanup_inactive_sessions: older than CONFIG["session_timeout"]
background_expired(session, t) == t - session.created_at > session_timeout

\* mutant: every call sweeps
cleanup_old_sessions_every_call(reg, lc, t) ==
    [sessions |-> Restrict(reg, {sid \in DOMAIN reg : ~lazy_expired(reg[sid], t)}),
     last_cleanup |-> t, ran |-> TRUE]

\* VisionProcessor._cleanup_old_sessions at time t
cleanup_old_sessions(reg, lc, t) ==
    IF t - lc < cleanup_interval
    THEN [sessions |-> reg, last_cleanup |-> lc, ran |-> FALSE]
    ELSE [sessions |-> Restrict(reg, {sid \in DOMAIN reg : ~lazy_expired(reg[sid], t)}),
          last_cleanup |-> t, ran |-> TRUE]

\* mutant: the session is created anew on every call
get_or_create_session_always_new(reg, sid, t) ==
    (sid :> NewSession(sid, t)) @@ reg

\* VisionProcessor._get_or_create_session, after the sweep
get_or_create_session(reg, sid, t) ==
    IF sid \notin DOMAIN reg THEN (sid :> NewSession(sid, t)) @@ reg ELSE reg

\* history: a process_frame call for the session at time t
Touch(s, t) ==
    [s EXCEPT !.ghost.steady = @ /\ (t - s.ghost.last_frame_at < session_timeout),
              !.ghost.last_frame_at = t]

NoResult ==
    [success |-> TRUE, face_detected |-> FALSE, confidence |-> 0,
     posture_score |-> 0, movement_level |-> 0, breathing_rate |-> None,
     appended_by_movement |-> FALSE, proxy_stored |-> FALSE]

(* history: the operation op ran for session id sid; swept tells whether a
   sweep ran in it, removed which sessions the sweep or the operation
   deleted, ret is the response *)
Op(name, sid, swept, removed, ret) ==
    [op |-> name, sid |-> sid, swept |-> swept, removed |-> removed, ret |-> ret]

\* no process_frame coroutine is running
IdleTask == [pc |-> "idle", sid |-> "", stages |-> <<>>, at |-> 0]

\* mutant: process_frame awaits between its mutations
loop_free_with_awaits(task) == TRUE

(* The event loop can start another handler only when no process_frame
   coroutine is between its first and last statement: the body of
   process_frame has no await, and the handlers are coroutines of one
   event loop. *)
loop_free(task) == task.pc = "idle"

----------------------------------------------------------------------------
(* Operations *)

Init ==
    /\ now = 0
    /\ sessions = <<>>
    /\ last_cleanup = 0
    /\ sweep_due = 0
    /\ last_op = Op("init", "", FALSE, {}, NoResult)
    /\ frames = 0
    /\ ticks = 0
    /\ cur = Frame(FALSE, NoLandmarks, PhaseNone, TRUE, TRUE, TRUE)
    /\ ai_response_cache = <<>>
    /\ frame_task = IdleTask
    /\ nonce_store = <<>>
    /\ siwe_hist = [issued |-> <<>>, consumed |-> <<>>]
    /\ active_sessions = <<>>
    /\ prod_inflight = {}

\* mutant: the sessions share one confidence_history
ProcessFrameSharedHistory(sid, request) ==
    LET c == cleanup_old_sessions(sessions, last_cleanup, now)
        reg == get_or_create_session(c.sessions, sid, now)
        r == process_fetched(reg[sid], request, now)
    IN  /\ sessions' = [x \in DOMAIN reg |->
                           IF x = sid THEN Touch(r.session, now)
                           ELSE [reg[x] EXCEPT !.confidence_history =
                                                   r.session.confidence_history]]
        /\ last_cleanup' = c.last_cleanup
        /\ last_op' = Op("process_frame", sid, c.ran,
                        DOMAIN sessions \ DOMAIN c.sessions, r.ret)
        /\ UNCHANGED other_vars
        /\ UNCHANGED <<now, sweep_due, ticks, ai_response_cache>>

(* VisionProcessor.process_frame(request) with request.session_id = sid.
   When the session lookup raises, the registry is as it was. *)
ProcessFrame(sid, request) ==
    LET c == cleanup_old_sessions(sessions, last_cleanup, now)
        reg == get_or_create_session(c.sessions, sid, now)
        r == process_fetched(reg[sid], request, now)
    IN  /\ IF "session" \in request.faults
           THEN /\ UNCHANGED <<sessions, last_cleanup>>
                /\ last_op' = Op("process_frame", sid, FALSE, {},
                                 frame_failed(sid, "session"))
           ELSE /\ sessions' = [reg EXCEPT ![sid] = Touch(r.session, now)]
                /\ last_cleanup' = c.last_cleanup
                /\ last_op' = Op("process_frame", sid, c.ran,
                                 DOMAIN sessions \ DOMAIN c.sessions, r.ret)
        /\ UNCHANGED other_vars
        /\ UNCHANGED <<now, sweep_due, ticks, ai_response_cache>>

\* POST /api/vision/process from any client
ClientFrame ==
    /\ frames < MaxRegFrames
    /\ \E sid \in SessionIds, request \in ClientInputs : ProcessFrame(sid, request)
    /\ frames' = frames + 1
    /\ UNCHANGED cur

(* POST /api/vision/process from one client that streams a session: the
   frame content changes only every SegLen frames *)
StreamFrame ==
    /\ frames < MaxFrames
    /\ \E request \in FrameInputs :
          /\ frames % SegLen # 0 => request = cur
          /\ ProcessFrame(StreamSid, request)
          /\ cur' = request
    /\ frames' = frames + 1

(* POST /api/vision/process from one client that streams a session while
   steps of process_frame raise; the frame content changes only every
   SegLen frames *)
FaultStream ==
    /\ frames < MaxFaultFrames
    /\ \E request \in FaultInputs :
          /\ frames % SegLen # 0 => request = cur
          /\ ProcessFrame(StreamSid, request)
          /\ cur' = request
    /\ frames' = frames + 1

\* sweep_due of a background task that has ended: it never wakes again
Terminated == -1

\* mutant: the exception of a sweep ends the background task
after_failed_sweep_terminating(t) == Terminated

(* the except clause of cleanup_inactive_sessions, entered at time t: the
   error is logged, the task sleeps 60 s and the while loop goes on; the
   result is the time of the next pass *)
after_failed_sweep(t) == t + sweep_sleep

(* one pass of the loop of cleanup_inactive_sessions in which a statement of
   the try block raises, after the sessions in deleted were removed *)
BackgroundSweepFails ==
    /\ sweep_due # Terminated
    /\ now >= sweep_due
    /\ ticks < MaxLiveTicks
    /\ \E deleted \in SUBSET {sid \in DOMAIN sessions :
                                  background_expired(sessions[sid], now)} :
          /\ sessions' = Restrict(sessions, DOMAIN sessions \ deleted)
          /\ last_op' = Op("cleanup_failed", "", TRUE, deleted, NoResult)
    /\ sweep_due' = after_failed_sweep(now)
    /\ UNCHANGED other_vars
    /\ UNCHANGED <<now, last_cleanup, frames, ticks, cur, ai_response_cache>>

\* one pass of the loop of cleanup_inactive_sessions, then asyncio.sleep(60)
BackgroundSweep ==
    /\ sweep_due # Terminated
    /\ now >= sweep_due
    /\ sessions' = Restrict(sessions,
           {sid \in DOMAIN sessions : ~background_expired(sessions[sid], now)})
    /\ sweep_due' = now + sweep_sleep
    /\ last_op' = Op("cleanup_inactive_sessions", "", TRUE,
                     {sid \in DOMAIN sessions : background_expired(sessions[sid], now)},
                     NoResult)
    /\ UNCHANGED other_vars
    /\ UNCHANGED <<now, last_cleanup, frames, ticks, cur, ai_response_cache>>

\* mutant: stopping a session clears the registry
StopSessionClearsRegistry ==
    \E sid \in SessionIds :
        /\ sessions' = IF sid \in DOMAIN sessions THEN <<>> ELSE sessions
        /\ last_op' = Op("manage_session", sid, FALSE, {sid} \cap DOMAIN sessions,
                         [NoResult EXCEPT !.success = sid \in DOMAIN sessions])
        /\ UNCHANGED other_vars
        /\ UNCHANGED <<now, last_cleanup, sweep_due, frames, ticks, cur,
                       ai_response_cache>>

\* manage_session: DELETE /api/vision/session/{session_id}
StopSession ==
    \E sid \in SessionIds :
        /\ sessions' = Restrict(sessions, DOMAIN sessions \ {sid})
        /\ last_op' = Op("manage_session", sid, FALSE, {sid} \cap DOMAIN sessions,
                         [NoResult EXCEPT !.success = sid \in DOMAIN sessions])
        /\ UNCHANGED other_vars
        /\ UNCHANGED <<now, last_cleanup, sweep_due, frames, ticks, cur,
                       ai_response_cache>>

\* the clock advances
Tick ==
    /\ ticks < MaxTicks
    /\ \E d \in TickSteps : now' = now + d
    /\ ticks' = ticks + 1
    /\ last_op' = Op("tick", "", FALSE, {}, NoResult)
    /\ UNCHANGED other_vars
    /\ UNCHANGED <<sessions, last_cleanup, sweep_due, frames, cur, ai_response_cache>>

\* mutant: the summary endpoint looks in the cache before the registry
summary_endpoint_cache_first(reg, cache, sid, t) ==
    IF sid \in DOMAIN cache /\ t - cache[sid].timestamp < summary_cache_ttl
    THEN [status |-> 200, result |-> cache[sid].result, cached |-> TRUE, cache |-> cache]
    ELSE IF sid \notin DOMAIN reg
    THEN [status |-> 404, result |-> None, cached |-> FALSE, cache |-> cache]
    ELSE LET summary == get_session_summary(reg[sid], t)
         IN  [status |-> 200, result |-> summary, cached |-> FALSE,
              cache |-> (sid :> [result |-> summary, timestamp |-> t]) @@ cache]

\* mutant: a cached summary is served whatever its age
summary_endpoint_cache_for_ever(reg, cache, sid, t) ==
    IF sid \notin DOMAIN reg
    THEN [status |-> 404, result |-> None, cached |-> FALSE, cache |-> cache]
    ELSE IF sid \in DOMAIN cache
    THEN [status |-> 200, result |-> cache[sid].result, cached |-> TRUE, cache |-> cache]
    ELSE LET summary == get_session_summary(reg[sid], t)
         IN  [status |-> 200, result |-> summary, cached |-> FALSE,
              cache |-> (sid :> [result |-> summary, timestamp |-> t]) @@ cache]

(* the endpoint get_session_summary(session_id) at time t: the response
   (status 404 is the HTTPException, cached tells whether the result came
   from ai_response_cache) and the cache as the call leaves it.  The cache
   key "session_summary_" + session_id is modelled by the session id. *)
summary_endpoint(reg, cache, sid, t) ==
    IF sid \notin DOMAIN reg
    THEN [status |-> 404, result |-> None, cached |-> FALSE, cache |-> cache]
    ELSE IF sid \in DOMAIN cache /\ t - cache[sid].timestamp < summary_cache_ttl
    THEN [status |-> 200, result |-> cache[sid].result, cached |-> TRUE, cache |-> cache]
    ELSE LET summary == get_session_summary(reg[sid], t)
         IN  [status |-> 200, result |-> summary, cached |-> FALSE,
              cache |-> (sid :> [result |-> summary, timestamp |-> t]) @@ cache]

\* GET /api/vision/sessions/{session_id}/summary
GetSummary ==
    \E sid \in SessionIds :
        LET r == summary_endpoint(sessions, ai_response_cache, sid, now)
        IN  /\ ai_response_cache' = r.cache
            /\ last_op' = Op("get_session_summary", sid, FALSE, {},
                             [status |-> r.status, result |-> r.result,
                              cached |-> r.cached])
            /\ UNCHANGED other_vars
            /\ UNCHANGED <<now, sessions, last_cleanup, sweep_due, frames, ticks, cur>>

(* list_sessions: GET /api/vision/sessions.  The list sessions_info is
   modelled by a function of the session id. *)
ListSessions ==
    LET sessions_info ==
            [sid \in DOMAIN sessions |->
                [session_id |-> sid,
                 created_at |-> sessions[sid].created_at,
                 duration |-> now - sessions[sid].created_at,
                 frame_count |-> Len(sessions[sid].landmark_history),
                 is_active |-> now - sessions[sid].created_at < session_timeout]]
    IN  /\ last_op' = Op("list_sessions", "", FALSE, {},
                         [sessions |-> sessions_info,
                          active_sessions |-> DOMAIN sessions,
                          session_count |-> Cardinality(DOMAIN sessions),
                          active_count |->
                              Cardinality({sid \in DOMAIN sessions :
                                              sessions_info[sid].is_active})])
        /\ UNCHANGED other_vars
        /\ UNCHANGED <<now, sessions, last_cleanup, sweep_due, frames, ticks, cur,
                       ai_response_cache>>

(* process_ai_analysis with session_data.visionSessionId = sid: the
   enhanced session data it hands to the analysis (found is FALSE when
   enhanced_data stays None) *)
AiAnalysis ==
    \E sid \in SessionIds :
        /\ last_op' = Op("process_ai_analysis", sid, FALSE, {},
                         IF sid \in DOMAIN sessions
                         THEN [found |-> TRUE,
                               enhanced_data |-> get_enhanced_summary(sessions[sid], now)]
                         ELSE [found |-> FALSE, enhanced_data |-> None])
        /\ UNCHANGED other_vars
        /\ UNCHANGED <<now, sessions, last_cleanup, sweep_due, frames, ticks, cur,
                       ai_response_cache>>

Next == ClientFrame \/ BackgroundSweep \/ StopSession \/ Tick

Spec == Init /\ [][Next]_vars

\* one streamed session and the requests that read it, no clock
NextFrames == StreamFrame \/ AiAnalysis \/ ListSessions

SpecFrames == Init /\ [][NextFrames]_vars

\* POST /api/vision/process, within the frame bound of SpecApi
ApiFrame == frames < MaxApiFrames /\ ClientFrame

(* the clock advances, within the tick bound of SpecApi, by a step that
   outlasts the summary cache or by one that outlasts both expiry limits *)
ApiTick == ticks < MaxApiTicks /\ Tick /\ now' - now \in ApiTickSteps

\* the session endpoints, the background task and the clock
NextApi ==
    \/ ApiFrame
    \/ BackgroundSweep
    \/ StopSession
    \/ ApiTick
    \/ GetSummary
    \/ ListSessions

SpecApi == Init /\ [][NextApi]_vars

\* POST /api/vision/process, within the frame bound of SpecCache
CacheFrame == frames < MaxCacheFrames /\ ClientFrame

(* the clock steps around the age limit of a cached summary: two of them
   reach the ages 1, 2, 59, 60 and 118 *)
CacheTickSteps == {1, summary_cache_ttl - 1}

CacheTick ==
    /\ ticks < MaxCacheTicks
    /\ \E d \in CacheTickSteps : now' = now + d
    /\ ticks' = ticks + 1
    /\ last_op' = Op("tick", "", FALSE, {}, NoResult)
    /\ UNCHANGED other_vars
    /\ UNCHANGED <<sessions, last_cleanup, sweep_due, frames, cur, ai_response_cache>>

\* frames, summaries and stops of two clients, with a clock of seconds
NextCache == CacheFrame \/ GetSummary \/ StopSession \/ CacheTick

SpecCache == Init /\ [][NextCache]_vars

(* process_frame statement by statement.  LoopFrameBegin is the call up to
   and including _get_or_create_session; every LoopFrameStep runs the
   coroutine up to its next mutation of the session, the last one returns
   the response. *)
LoopFrameBegin ==
    /\ loop_free(frame_task)
    /\ frames < MaxLoopFrames
    /\ \E sid \in SessionIds, request \in ClientInputs :
          LET c == cleanup_old_sessions(sessions, last_cleanup, now)
              reg == get_or_create_session(c.sessions, sid, now)
              r == process_fetched(reg[sid], request, now)
          IN  /\ sessions' = [reg EXCEPT ![sid] = Touch(r.stages[1], now)]
              /\ last_cleanup' = c.last_cleanup
              /\ frame_task' = [pc |-> "running", sid |-> sid,
                                stages |-> [i \in DOMAIN r.stages |->
                                               Touch(r.stages[i], now)],
                                at |-> 1]
              /\ last_op' = Op("process_frame_begin", sid, c.ran,
                               DOMAIN sessions \ DOMAIN c.sessions, r.ret)
              /\ cur' = request
    /\ frames' = frames + 1
    /\ UNCHANGED <<now, sweep_due, ticks, ai_response_cache>>
    /\ UNCHANGED <<nonce_store, siwe_hist, active_sessions, prod_inflight>>

LoopFrameStep ==
    /\ frame_task.pc = "running"
    /\ IF frame_task.at < Len(frame_task.stages)
       THEN /\ sessions' = [sessions EXCEPT ![frame_task.sid] =
                                frame_task.stages[frame_task.at + 1]]
            /\ frame_task' = [frame_task EXCEPT !.at = @ + 1]
            /\ UNCHANGED last_op
       ELSE /\ frame_task' = IdleTask
            /\ last_op' = [last_op EXCEPT !.op = "process_frame"]
            /\ UNCHANGED sessions
    /\ UNCHANGED <<now, last_cleanup, sweep_due, frames, ticks, cur, ai_response_cache>>
    /\ UNCHANGED <<nonce_store, siwe_hist, active_sessions, prod_inflight>>

\* the summary endpoint as a handler of the event loop
LoopSummary == loop_free(frame_task) /\ GetSummary

\* the clock, between two handlers of the event loop
LoopTick == loop_free(frame_task) /\ ApiTick

\* frames and summary requests of two clients on one event loop
NextLoop == LoopFrameBegin \/ LoopFrameStep \/ LoopSummary \/ LoopTick

SpecLoop == Init /\ [][NextLoop]_vars

----------------------------------------------------------------------------
(* siwe_endpoints.py: challenge and verify *)

NONCE_TTL_SECONDS == 300

(* Addresses as the clients write them.  str.lower() is the table Lower;
   WellFormed are the strings that start with "0x" and have 42 characters. *)
Lower == [a \in {"0xAA", "0xaa", "0xBb", "0xbb", "0xcc", "bad"} |->
             CASE a = "0xAA" -> "0xaa"
               [] a = "0xBb" -> "0xbb"
               [] OTHER -> a]

WellFormed == {"0xAA", "0xaa", "0xBb", "0xbb", "0xcc"}

\* the addresses clients ask challenges for
ChallengeAddresses == {"0xaa", "0xBb", "bad"}

\* the key holders, by the checksum form of their address
Signers == {"0xAA", "0xBb"}

(* the address Account.recover_message returns for a signature that was
   made over another message: the address of no key holder, and one that
   nobody asks a challenge for *)
UnrelatedAddress == "0xcc"

\* uuid.uuid4().hex of the k-th challenge: never the same twice
Nonce(k) == IF k = 1 THEN "n1" ELSE IF k = 2 THEN "n2" ELSE
            IF k = 3 THEN "n3" ELSE "n4"

\* a nonce that no challenge returned
NeverIssued == "n_unknown"

(* build_siwe_message: of the canonical text, the address line and the
   Nonce line are kept; the other lines are not read back by the parser *)
build_siwe_message(address, nonce) ==
    [lines |-> 8, address |-> address, nonce |-> nonce]

\* a text of fewer than six lines
MalformedMessage == [lines |-> 1, address |-> "", nonce |-> ""]

(* parse_address_and_nonce_from_message: status 400 for fewer than six
   lines, else line 1 and the value of the Nonce line *)
parse_address_and_nonce_from_message(message) ==
    IF message.lines < 6
    THEN [status |-> 400, detail |-> "Malformed SIWE message",
          address |-> "", nonce |-> ""]
    ELSE [status |-> 200, detail |-> "",
          address |-> message.address, nonce |-> message.nonce]

\* a signature of signer over message, and a string that is no signature
Sign(signer, message) == [signer |-> signer, message |-> message]

Garbage == [signer |-> "", message |-> MalformedMessage]

(* Account.recover_message: the signer when the signature was made over this
   message, an unrelated address when it was made over another one *)
recover_message(message, signature) ==
    IF signature.message = message THEN signature.signer ELSE UnrelatedAddress

\* mutant: a verified nonce stays unused
consume_keeping(meta) == meta

\* meta["used"] = True
consume(meta) == [meta EXCEPT !.used = TRUE]

\* mutant: nonces never expire
expired_never(meta, t) == FALSE

\* time.time() > meta["expiresAt"]
expired(meta, t) == t > meta.expiresAt

\* mutant: the signer is compared with the address of the message only
signature_rejected_unbound(recovered, address, meta) == recovered # address

\* recovered != address or recovered != meta["address"]
signature_rejected(recovered, address, meta) ==
    recovered # address \/ recovered # meta.address

(* issue_challenge at time t for the k-th nonce: the status, the message
   and the nonce store it leaves *)
issue_challenge(store, address, k, t) ==
    IF address \notin WellFormed
    THEN [status |-> 400, detail |-> "Invalid Ethereum address",
          message |-> MalformedMessage, nonce |-> "", store |-> store]
    ELSE [status |-> 200, detail |-> "",
          message |-> build_siwe_message(address, Nonce(k)),
          nonce |-> Nonce(k),
          store |-> (Nonce(k) :> [address |-> Lower[address],
                                  expiresAt |-> t + NONCE_TTL_SECONDS,
                                  used |-> FALSE]) @@ store]

(* verify_signature at time t: status and detail of the response (200 with
   ok, or the HTTPException), the address and nonce it read, the recovered
   signer, and the nonce store it leaves *)
verify_signature(store, message, signature, t) ==
    LET parsed == parse_address_and_nonce_from_message(message)
        address == Lower[parsed.address]
        nonce == parsed.nonce
        meta == store[nonce]
        recovered == Lower[recover_message(message, signature)]
        reject(status, detail, st) ==
            [status |-> status, detail |-> detail, ok |-> FALSE,
             address |-> address, nonce |-> nonce, recovered |-> "",
             store |-> st]
    IN  IF parsed.status # 200 THEN
            [status |-> 400, detail |-> parsed.detail, ok |-> FALSE,
             address |-> "", nonce |-> "", recovered |-> "", store |-> store]
        ELSE IF nonce \notin DOMAIN store THEN
            reject(400, "Unknown nonce", store)
        ELSE IF meta.used THEN
            reject(400, "Nonce already used", store)
        ELSE IF expired(meta, t) THEN
            reject(400, "Nonce expired", Restrict(store, DOMAIN store \ {nonce}))
        ELSE IF signature = Garbage THEN
            reject(500, "Verification error", store)
        ELSE IF signature_rejected(recovered, address, meta) THEN
            [reject(401, "Signature verification failed", store)
                EXCEPT !.recovered = recovered]
        ELSE [status |-> 200, detail |-> "", ok |-> TRUE,
              address |-> address, nonce |-> nonce, recovered |-> recovered,
              store |-> [store EXCEPT ![nonce] = consume(meta)]]

\* POST /api/siwe/challenge
IssueChallenge ==
    /\ Cardinality(DOMAIN siwe_hist.issued) < MaxNonces
    /\ \E address \in ChallengeAddresses :
          LET k == Cardinality(DOMAIN siwe_hist.issued) + 1
              r == issue_challenge(nonce_store, address, k, now)
          IN  /\ nonce_store' = r.store
              /\ siwe_hist' =
                    IF r.status = 200
                    THEN [siwe_hist EXCEPT
                             !.issued = (r.nonce :> [requested |-> address,
                                                     at |-> now]) @@ @,
                             !.consumed = (r.nonce :> 0) @@ @]
                    ELSE siwe_hist
              /\ last_op' = Op("issue_challenge", "", FALSE, {},
                               [status |-> r.status, nonce |-> r.nonce,
                                message |-> r.message])
    /\ UNCHANGED <<now, sessions, last_cleanup, sweep_due, frames, ticks, cur,
                   ai_response_cache, frame_task, active_sessions, prod_inflight>>

(* the messages clients present: for every nonce issued, the text with the
   address of either key holder in its checksum spelling (the text of the
   challenge, the same in another spelling, or one with another address);
   one with a nonce never issued; a malformed text *)
VerifyMessages ==
    { build_siwe_message(a, n) : a \in Signers, n \in DOMAIN siwe_hist.issued }
    \cup {build_siwe_message("0xAA", NeverIssued), MalformedMessage}

(* the signatures presented with message: of either key holder over it,
   one made over another message, and a string that is no signature *)
VerifySignatures(message) ==
    { Sign(s, message) : s \in Signers }
    \cup {Sign("0xAA", build_siwe_message("0xAA", NeverIssued)), Garbage}

\* POST /api/siwe/verify
Verify ==
    /\ \E message \in VerifyMessages :
       \E signature \in VerifySignatures(message) :
          LET r == verify_signature(nonce_store, message, signature, now)
          IN  /\ nonce_store' = r.store
              /\ siwe_hist' =
                    IF r.status = 200
                    THEN [siwe_hist EXCEPT !.consumed[r.nonce] = @ + 1]
                    ELSE siwe_hist
              /\ last_op' = Op("verify_signature", "", FALSE, {},
                               [status |-> r.status, detail |-> r.detail,
                                ok |-> r.ok, address |-> r.address,
                                nonce |-> r.nonce, recovered |-> r.recovered,
                                message |-> message, signature |-> signature,
                                before |-> nonce_store])
    /\ UNCHANGED <<now, sessions, last_cleanup, sweep_due, frames, ticks, cur,
                   ai_response_cache, frame_task, active_sessions, prod_inflight>>

\* the clock steps that take a nonce to the end of its TTL and just past it
SiweTickSteps == {NONCE_TTL_SECONDS, NONCE_TTL_SECONDS + 1}

\* the clock of the runs of the SIWE endpoints
SiweTick ==
    /\ ticks < MaxSiweTicks
    /\ \E d \in SiweTickSteps : now' = now + d
    /\ ticks' = ticks + 1
    /\ last_op' = Op("tick", "", FALSE, {}, NoResult)
    /\ UNCHANGED other_vars
    /\ UNCHANGED <<sessions, last_cleanup, sweep_due, frames, cur, ai_response_cache>>

NextSiwe == IssueChallenge \/ Verify \/ SiweTick

SpecSiwe == Init /\ [][NextSiwe]_vars

----------------------------------------------------------------------------
(* main_production.py: the session table and its endpoints *)

\* main_production.CONFIG["max_concurrent_sessions"]: run with
\* MAX_CONCURRENT_SESSIONS=2
prod_max_concurrent_sessions == 2

\* main_production.CONFIG["session_timeout"]
prod_session_timeout == 300

ProdSessionIds == {"s1", "s2", "s3"}

(* app = FastAPI(..., lifespan=lifespan) and @app.on_event("startup"): an
   application that is given a lifespan context runs that context at
   startup and not the handlers registered with on_event.
   start_background_tasks is such a handler, and lifespan creates no task,
   so cleanup_inactive_sessions is never started. *)
startup_handlers_run(lifespan_given) == ~lifespan_given

cleanup_task_started == startup_handlers_run(TRUE)

\* mutant: a start request replaces the table's capacity test by none
start_session_unchecked(table, sid, t) ==
    [status |-> 200, detail |-> "Session started",
     table |-> (sid :> [last_activity |-> t,
                        frame_count |-> 0, prev_pose |-> FALSE]) @@ table]

(* start_session at time t (the models are loaded): status, detail and the
   table it leaves.  Of an entry, last_activity, frame_count and whether
   prev_pose is set are kept; start_time and features are only reported. *)
start_session(table, sid, t) ==
    IF Cardinality(DOMAIN table) >= prod_max_concurrent_sessions
    THEN [status |-> 503, detail |-> "Maximum concurrent sessions reached",
          table |-> table]
    ELSE [status |-> 200, detail |-> "Session started",
          table |-> (sid :> [last_activity |-> t,
                             frame_count |-> 0, prev_pose |-> FALSE]) @@ table]

\* POST /vision/start
StartSession ==
    /\ \E sid \in ProdSessionIds :
          LET r == start_session(active_sessions, sid, now)
          IN  /\ active_sessions' = r.table
              /\ last_op' = Op("start_session", sid, FALSE, {},
                               [status |-> r.status, detail |-> r.detail,
                                before |-> active_sessions])
    /\ UNCHANGED <<now, sessions, last_cleanup, sweep_due, frames, ticks, cur,
                   ai_response_cache, frame_task, nonce_store, siwe_hist,
                   prod_inflight>>

(* process_vision_frame up to await file.read(): 404 for an unknown session,
   else last_activity and frame_count are updated and the request waits for
   its upload *)
ProdFrameBegin ==
    /\ frames < MaxProdFrames
    /\ \E sid \in ProdSessionIds, decodable \in BOOLEAN :
          IF sid \notin DOMAIN active_sessions
          THEN /\ last_op' = Op("process_vision_frame", sid, FALSE, {},
                                [status |-> 404, detail |-> "Session not found",
                                 decodable |-> decodable,
                                 before |-> active_sessions])
               /\ UNCHANGED <<active_sessions, prod_inflight>>
          ELSE /\ active_sessions' =
                     [active_sessions EXCEPT ![sid].last_activity = now,
                                             ![sid].frame_count = @ + 1]
               /\ prod_inflight' = prod_inflight \cup
                                      {[sid |-> sid, decodable |-> decodable]}
               /\ last_op' = Op("process_vision_frame_begin", sid, FALSE, {},
                                [status |-> 0, detail |-> "",
                                 decodable |-> decodable,
                                 before |-> active_sessions])
    /\ frames' = frames + 1
    /\ UNCHANGED <<now, sessions, last_cleanup, sweep_due, ticks, cur,
                   ai_response_cache, frame_task, nonce_store, siwe_hist>>

(* process_vision_frame after await file.read().  cv2.imdecode gives None
   for bytes that are no image; the HTTPException(400) raised for it is
   raised inside the try block, whose except Exception clause replaces it
   by HTTPException(500, "Processing failed: " + str(e)).  For an image,
   process_frame stores prev_pose in the session's entry; when the session
   is no longer in the table the KeyError is caught inside process_frame. *)
frame_response(table, sid, decodable) ==
    IF ~decodable
    THEN [status |-> 500, detail |-> "Processing failed: 400: Invalid image data",
          table |-> table]
    ELSE [status |-> 200, detail |-> "",
          table |-> IF sid \in DOMAIN table
                    THEN [table EXCEPT ![sid].prev_pose = TRUE] ELSE table]

\* the rest of process_vision_frame for a request whose upload was read
ProdFrameEnd ==
    /\ \E request \in prod_inflight :
          LET r == frame_response(active_sessions, request.sid, request.decodable)
          IN  /\ active_sessions' = r.table
              /\ prod_inflight' = prod_inflight \ {request}
              /\ last_op' = Op("process_vision_frame", request.sid, FALSE, {},
                               [status |-> r.status, detail |-> r.detail,
                                decodable |-> request.decodable,
                                before |-> active_sessions])
    /\ UNCHANGED <<now, sessions, last_cleanup, sweep_due, frames, ticks, cur,
                   ai_response_cache, frame_task, nonce_store, siwe_hist>>

\* POST /vision/stop/{session_id}
ProdStopSession ==
    /\ \E sid \in ProdSessionIds :
          /\ active_sessions' =
                 Restrict(active_sessions, DOMAIN active_sessions \ {sid})
          /\ last_op' = Op("stop_session", sid, FALSE,
                           {sid} \cap DOMAIN active_sessions,
                           [status |-> IF sid \in DOMAIN active_sessions
                                       THEN 200 ELSE 404,
                            detail |-> "", before |-> active_sessions])
    /\ UNCHANGED <<now, sessions, last_cleanup, sweep_due, frames, ticks, cur,
                   ai_response_cache, frame_task, nonce_store, siwe_hist,
                   prod_inflight>>

\* the test of main_production.cleanup_inactive_sessions
prod_inactive(data, t) == t - data.last_activity > prod_session_timeout

(* one pass of the loop of main_production.cleanup_inactive_sessions, in a
   process in which the task was created *)
ProdCleanup ==
    /\ \E sid \in DOMAIN active_sessions : prod_inactive(active_sessions[sid], now)
    /\ active_sessions' =
           Restrict(active_sessions,
                    {sid \in DOMAIN active_sessions :
                        ~prod_inactive(active_sessions[sid], now)})
    /\ last_op' = Op("prod_cleanup", "", TRUE,
                     {sid \in DOMAIN active_sessions :
                         prod_inactive(active_sessions[sid], now)},
                     [status |-> 0, detail |-> "", before |-> active_sessions])
    /\ UNCHANGED <<now, sessions, last_cleanup, sweep_due, frames, ticks, cur,
                   ai_response_cache, frame_task, nonce_store, siwe_hist,
                   prod_inflight>>

\* the clock of the runs of main_production
ProdTick == ticks < MaxProdTicks /\ Tick

(* main_production as it is started: the endpoints, and the tasks that were
   created at startup (the cleanup task is not among them) *)
NextProd ==
    \/ StartSession
    \/ ProdFrameBegin
    \/ ProdFrameEnd
    \/ ProdStopSession
    \/ ProdTick

\* time passes
SpecProd == Init /\ [][NextProd]_vars /\ WF_vars(ProdTick)

\* main_production with a running cleanup task
NextProdTask ==
    \/ StartSession
    \/ ProdFrameBegin
    \/ ProdFrameEnd
    \/ ProdStopSession
    \/ ProdTick
    \/ ProdCleanup

SpecProdTask ==
    Init /\ [][NextProdTask]_vars /\ WF_vars(ProdTick) /\ WF_vars(ProdCleanup)

----------------------------------------------------------------------------
(* webhook_handler.py: the GitHub webhook *)

\* os.getenv("GITHUB_WEBHOOK_SECRET", ...)
WEBHOOK_SECRET == "secret"

(* The body of a request: whether json.loads accepts it and gives a dict
   ("dict"), gives another value ("list") or raises ("invalid"), and the
   value of payload.get('ref', ''). *)
Payload(json, ref) == [json |-> json, ref |-> ref]

WebhookPayloads ==
    { Payload("dict", "refs/heads/main"),
      Payload("dict", "refs/heads/master"),
      Payload("dict", "refs/heads/feature"),
      Payload("dict", "refs/tags/main"),
      Payload("dict", ""),
      Payload("list", ""),
      Payload("invalid", "") }

(* The header X-Hub-Signature-256: a prefix and the HMAC-SHA256 digest of a
   payload under a key; a digest equals another one only when key and
   payload are the same. *)
Hmac(prefix, key, payload) == [prefix |-> prefix, key |-> key, payload |-> payload]

NoSignature == Hmac("", "", Payload("invalid", ""))

(* the signatures sent with payload: GitHub's, the same with the sha1
   prefix, one made with a guessed secret, GitHub's for another payload, and
   none *)
WebhookSignatures(payload) ==
    { Hmac("sha256=", WEBHOOK_SECRET, payload),
      Hmac("sha1=", WEBHOOK_SECRET, payload),
      Hmac("sha256=", "guess", payload),
      Hmac("sha256=", WEBHOOK_SECRET, Payload("dict", "refs/heads/other")),
      NoSignature }

\* the header X-GitHub-Event
WebhookEvents == {"push", "pull_request", "ping", ""}

\* what ./deploy-hetzner.sh does when it is run
DeployOutcomes == {"ok", "nonzero", "timeout"}

\* mutant: every signature is accepted
webhook_verify_signature_any(payload, signature) == TRUE

\* webhook_handler.verify_signature
webhook_verify_signature(payload, signature) ==
    IF signature.prefix # "sha256=" THEN FALSE
    ELSE signature = Hmac("sha256=", WEBHOOK_SECRET, payload)

(* handle_push_event: the result's status and whether subprocess.run was
   called *)
handle_push_event(payload, outcome) ==
    IF payload.ref \notin {"refs/heads/main", "refs/heads/master"}
    THEN [status |-> "ignored", ran |-> FALSE]
    ELSE [status |-> IF outcome = "ok" THEN "deployed" ELSE "failed", ran |-> TRUE]

(* process_webhook: the HTTP status, the status of the handler's result,
   and the steps it went through, in order.  The HTTPException(401) for a
   bad signature is raised inside the try block and leaves it through
   except Exception as status 500; a payload that is no dict makes
   payload.get raise, which gives 500 too. *)
process_webhook(signature, event_type, payload, outcome) ==
    LET push == handle_push_event(payload, outcome)
    IN  IF ~webhook_verify_signature(payload, signature)
        THEN [status |-> 500, result |-> "", steps |-> <<"verify_signature">>]
        ELSE IF payload.json = "invalid"
        THEN [status |-> 400, result |-> "",
              steps |-> <<"verify_signature", "json.loads">>]
        ELSE IF payload.json # "dict"
        THEN [status |-> 500, result |-> "",
              steps |-> <<"verify_signature", "json.loads">>]
        ELSE IF event_type = "push"
        THEN [status |-> 200, result |-> push.status,
              steps |-> <<"verify_signature", "json.loads", "handle_push_event">>
                        \o (IF push.ran THEN <<"subprocess.run">> ELSE <<>>)]
        ELSE IF event_type = "pull_request"
        THEN [status |-> 200, result |-> "acknowledged",
              steps |-> <<"verify_signature", "json.loads",
                          "handle_pull_request_event">>]
        ELSE [status |-> 200, result |-> "ignored",
              steps |-> <<"verify_signature", "json.loads">>]

\* POST /webhook/github
Webhook ==
    /\ \E payload \in WebhookPayloads, event_type \in WebhookEvents,
          outcome \in DeployOutcomes :
       \E signature \in WebhookSignatures(payload) :
          LET r == process_webhook(signature, event_type, payload, outcome)
          IN  last_op' = Op("process_webhook", "", FALSE, {},
                            [status |-> r.status, result |-> r.result,
                             steps |-> r.steps, signature |-> signature,
                             event_type |-> event_type, payload |-> payload])
    /\ UNCHANGED other_vars
    /\ UNCHANGED <<now, sessions, last_cleanup, sweep_due, frames, ticks, cur,
                   ai_response_cache>>

NextWebhook == Webhook

SpecWebhook == Init /\ [][NextWebhook]_vars

----------------------------------------------------------------------------
\* the clock of the runs in which passes of the background task raise
LiveTick == ticks < MaxLiveTicks /\ Tick

\* frames of two clients and a background task whose passes may raise
NextLive == ApiFrame \/ LiveTick \/ BackgroundSweep \/ BackgroundSweepFails

(* Time passes, and the event loop resumes the background task when its
   asyncio.sleep(60) has ended. *)
SpecLive ==
    /\ Init
    /\ [][NextLive]_vars
    /\ WF_vars(LiveTick)
    /\ WF_vars(BackgroundSweep)

\* one streamed session with raising steps, and the requests that read it
NextFaults == FaultStream \/ ListSessions

SpecFaults == Init /\ [][NextFaults]_vars

----------------------------------------------------------------------------
(* Properties *)

Registered == DOMAIN sessions

(* C1: a session holds one temporal snapshot for every 30 frames it has
   ingested: after n add_frame_metrics calls there are n div 30 snapshots. *)
C1_SnapshotEvery30thFrame ==
    \A sid \in Registered :
        Len(sessions[sid].temporal_snapshots)
            = sessions[sid].ghost.ingested \div snapshot_every

(* C2: no sweep (the background pass, or the one inside get_or_create)
   removes a session whose process_frame calls have all come less than
   session_timeout apart, the last of them less than session_timeout ago. *)
C2_ActiveSessionSurvivesSweeps ==
    [][\A sid \in Registered :
          (/\ last_op'.swept
           /\ sessions[sid].ghost.steady
           /\ now - sessions[sid].ghost.last_frame_at < session_timeout)
          => (/\ sid \in DOMAIN sessions'
              /\ sessions'[sid].created_at = sessions[sid].created_at)]_vars

(* C3: _calculate_movement_level leaves movement_history as it found it, so
   movement_history has received exactly one value per ingested frame. *)
C3_MovementAppendedOncePerFrame ==
    /\ last_op.op = "process_frame" => ~last_op.ret.appended_by_movement
    /\ \A sid \in Registered :
          Len(sessions[sid].ghost.appended["movement_history"])
              = sessions[sid].ghost.ingested

(* C4: every rolling history of every session is within its capacity. *)
C4_HistoriesWithinCapacity ==
    \A sid \in Registered :
        /\ Len(sessions[sid].landmark_history) <= 30
        /\ Len(sessions[sid].breathing_history) <= 100
        /\ Len(sessions[sid].movement_history) <= 50
        /\ Len(sessions[sid].confidence_history) <= 50
        /\ Len(sessions[sid].posture_history) <= 50

\* C4's case: every history of a session is full and has had to drop values
C4_Witness ==
    \E sid \in Registered : \A h \in Histories :
        /\ Len(sessions[sid].ghost.appended[h]) > Maxlen(h)
        /\ Len(sessions[sid][h]) = Maxlen(h)

(* C5: a rolling history of capacity K holds the K values appended last, in
   the order of their appends (all of them while fewer than K were
   appended), and nothing else. *)
C5_HistoryIsLastKAppended ==
    \A sid \in Registered : \A h \in Histories :
        LET all == sessions[sid].ghost.appended[h]
            K == Maxlen(h)
            n == Len(all)
            held == sessions[sid][h]
        IN  /\ Len(held) = Min(n, K)
            /\ \A i \in 1..Len(held) : held[i] = all[n - Len(held) + i]

\* C5's case: a full landmark history has dropped its first value for good
C5_Witness ==
    \E sid \in Registered :
        LET all == sessions[sid].ghost.appended["landmark_history"]
        IN  /\ Len(all) > landmark_maxlen
            /\ all[1] \notin Range(sessions[sid].landmark_history)
            /\ all[Len(all)] = sessions[sid].landmark_history[landmark_maxlen]

(* C6: the sweep inside get_or_create and the background sweep decide alike
   on every session at every time: one removes it iff the other does. *)
C6_SweepsAgreeOnExpiry ==
    \A sid \in Registered :
        lazy_expired(sessions[sid], now) <=> background_expired(sessions[sid], now)

(* C7: one pass of the background sweep removes exactly the sessions older
   than the session timeout and leaves the others as they were. *)
C7_BackgroundSweepRemovesExactlyExpired ==
    [][last_op'.op = "cleanup_inactive_sessions" =>
          /\ DOMAIN sessions' =
                 {sid \in Registered : now - sessions[sid].created_at <= 300}
          /\ \A sid \in DOMAIN sessions' : sessions'[sid] = sessions[sid]]_vars

\* C7's case: a pass has removed a session and kept another, one at the timeout
C7_Witness ==
    /\ last_op.op = "cleanup_inactive_sessions"
    /\ last_op.removed # {}
    /\ \E sid \in Registered : now - sessions[sid].created_at = 300

(* C8: the registry never holds more than max_concurrent_sessions sessions. *)
C8_RegistryWithinSessionCap ==
    Cardinality(Registered) <= max_concurrent_sessions

(* C9: every element of a session's breathing_history is a nostril-area
   proxy stored by the estimator, none an estimated rate. *)
C9_BreathingHistoryHoldsOnlyProxies ==
    \A sid \in Registered :
        LET kinds == sessions[sid].ghost.breathing_kind
            held == Len(sessions[sid].breathing_history)
        IN  \A i \in 1..Len(kinds) :
                i > Len(kinds) - held => kinds[i] = "proxy"

(* C10: when the estimator has just stored a proxy and the 20 proxies stored
   last for the session are identical, the breathing rate of the frame is
   12.0. *)
C10_ConstantProxyGivesRate12 ==
    (/\ last_op.op = "process_frame"
     /\ last_op.ret.proxy_stored
     /\ LET fed == sessions[last_op.sid].ghost.proxies
        IN  /\ Len(fed) >= min_breathing_samples
            /\ Cardinality(Range(LastK(fed, min_breathing_samples))) = 1)
    => last_op.ret.breathing_rate = 1200

(* C11: when _estimate_breathing_rate is called with fewer than 30
   landmarks it returns None and stores nothing; when it has stored the
   proxy and breathing_history then holds fewer than 20 samples it returns
   None. *)
C11_NoRateBeforeEnoughData ==
    (last_op.op = "process_frame" /\ last_op.ret.estimator_called) =>
        /\ last_op.ret.landmarks_n < 30 =>
              /\ last_op.ret.breathing_rate = None
              /\ ~last_op.ret.proxy_stored
              /\ last_op.ret.samples = Len(last_op.ret.fetched.breathing_history)
        /\ (last_op.ret.landmarks_n >= 30 /\ last_op.ret.samples < 20) =>
              /\ last_op.ret.breathing_rate = None
              /\ last_op.ret.proxy_stored

\* C11's case: the estimator stored the 19th sample and returned None
C11_Witness ==
    /\ last_op.op = "process_frame"
    /\ last_op.ret.estimator_called
    /\ last_op.ret.proxy_stored
    /\ last_op.ret.samples = 19
    /\ last_op.ret.breathing_rate = None

(* C12: created_at is the time the session was created and no operation
   changes it: a session that a step leaves registered (and that the step's
   sweep did not remove and create again) keeps its created_at, and a
   session that a step creates has the time of the step. *)
C12_CreatedAtSetOnce ==
    [][\A sid \in DOMAIN sessions' :
          IF sid \in DOMAIN sessions \ last_op'.removed
          THEN sessions'[sid].created_at = sessions[sid].created_at
          ELSE sessions'[sid].created_at = now]_vars

\* C12's case: a frame ingested into a session created earlier
C12_Witness ==
    /\ last_op.op = "process_frame"
    /\ last_op.ret.face_detected
    /\ sessions[last_op.sid].created_at < now

(* C13: the session lookup of process_frame first runs the opportunistic
   sweep (which removes the sessions created more than an hour ago when
   300 seconds have passed since the last one); an id that is registered
   after the sweep gets its registered state as it was, any other id a new
   state with empty histories created now; the id is registered after the
   call. *)
C13_GetOrCreateReturnsRegisteredOrNew ==
    [][last_op'.op = "process_frame" =>
          LET sid == last_op'.sid
              fetched == last_op'.ret.fetched
          IN  /\ last_op'.removed =
                    IF now - last_cleanup >= 300
                    THEN {x \in DOMAIN sessions : sessions[x].created_at < now - 3600}
                    ELSE {}
              /\ IF sid \in DOMAIN sessions \ last_op'.removed
                 THEN fetched = sessions[sid]
                 ELSE /\ fetched.session_id = sid
                      /\ fetched.created_at = now
                      /\ \A h \in Histories : fetched[h] = <<>>
                      /\ fetched.phase_movement_map = <<>>
                      /\ fetched.temporal_snapshots = <<>>
                      /\ fetched.last_landmarks = NoLandmarks
              /\ sid \in DOMAIN sessions']_vars

\* C13's case: the lookup returned a registered session that holds frames
C13_Witness ==
    /\ last_op.op = "process_frame"
    /\ Len(last_op.ret.fetched.landmark_history) > 0

(* C14: a session lookup made less than 300 seconds after the previous
   opportunistic sweep (or after the construction) removes no session and
   leaves the last-sweep time; a later one sets it to the time of the call;
   no other operation changes the last-sweep time. *)
C14_OpportunisticSweepOncePerInterval ==
    [][/\ last_op'.op = "process_frame" =>
             IF now - last_cleanup < 300
             THEN /\ last_op'.removed = {}
                  /\ ~last_op'.swept
                  /\ last_cleanup' = last_cleanup
             ELSE /\ last_op'.swept
                  /\ last_cleanup' = now
       /\ last_op'.op # "process_frame" => last_cleanup' = last_cleanup]_vars

(* C14's case: a lookup inside the interval that left a session created
   more than an hour ago in the registry *)
C14_Witness ==
    /\ last_op.op = "process_frame"
    /\ ~last_op.swept
    /\ now > 300
    /\ \E sid \in Registered : sessions[sid].created_at < now - 3600

(* C15: manage_session for a registered id removes that entry and leaves
   every other session as it was; for an unregistered id (also one that was
   removed before) it leaves the registry as it was and answers not found. *)
C15_StopRemovesExactlyThatSession ==
    [][last_op'.op = "manage_session" =>
          IF last_op'.sid \in DOMAIN sessions
          THEN /\ last_op'.ret.success
               /\ DOMAIN sessions' = DOMAIN sessions \ {last_op'.sid}
               /\ \A x \in DOMAIN sessions' : sessions'[x] = sessions[x]
          ELSE /\ ~last_op'.ret.success
               /\ sessions' = sessions]_vars

\* C15's case: a session was removed and another one is still registered
C15_Witness ==
    /\ last_op.op = "manage_session"
    /\ last_op.ret.success
    /\ Registered # {}

(* C16: a summary request for an id that is not registered answers not
   found, whatever ai_response_cache holds for the id, and no summary
   request changes the registry. *)
C16_SummaryOfUnregisteredIsNotFound ==
    [][last_op'.op = "get_session_summary" =>
          /\ last_op'.sid \notin DOMAIN sessions => last_op'.ret.status = 404
          /\ sessions' = sessions]_vars

\* C16's case: not found although a summary for the id is in the cache
C16_Witness ==
    /\ last_op.op = "get_session_summary"
    /\ last_op.ret.status = 404
    /\ last_op.sid \in DOMAIN ai_response_cache
    /\ now - ai_response_cache[last_op.sid].timestamp < 60

(* C17: the summary computed for a session that has ingested no frame has
   0 for the averages of confidence, posture and movement, for
   stillness_percentage and for consistency_score, None for
   avg_breathing_rate and total_frames 0. *)
C17_SummaryOfEmptySession ==
    (/\ last_op.op = "get_session_summary"
     /\ last_op.ret.status = 200
     /\ ~last_op.ret.cached
     /\ sessions[last_op.sid].ghost.ingested = 0)
    => /\ last_op.ret.result.avg_confidence = 0
       /\ last_op.ret.result.avg_posture_score = 0
       /\ last_op.ret.result.avg_movement_level = 0
       /\ last_op.ret.result.stillness_percentage = 0
       /\ last_op.ret.result.consistency_score = 0
       /\ last_op.ret.result.avg_breathing_rate = None
       /\ last_op.ret.result.total_frames = 0

\* C17's case: a summary was computed for a session without frames
C17_Witness ==
    /\ last_op.op = "get_session_summary"
    /\ last_op.ret.status = 200
    /\ ~last_op.ret.cached
    /\ sessions[last_op.sid].ghost.ingested = 0

(* C18: total_frames of a summary, and frame_count of the session listing,
   is the length of landmark_history: the number of frames with a detected
   face the session has ingested, at most 30. *)
C18_TotalFramesIsCappedLandmarkCount ==
    /\ (last_op.op = "process_ai_analysis" /\ last_op.ret.found) =>
          /\ last_op.ret.enhanced_data.total_frames
                 = Len(sessions[last_op.sid].landmark_history)
          /\ last_op.ret.enhanced_data.total_frames
                 = Min(sessions[last_op.sid].ghost.ingested, 30)
    /\ last_op.op = "list_sessions" =>
          \A sid \in Registered :
              last_op.ret.sessions[sid].frame_count
                  = Min(sessions[sid].ghost.ingested, 30)

\* C18's case: a summary of a session that has ingested more than 30 frames
C18_Witness ==
    /\ last_op.op = "process_ai_analysis"
    /\ last_op.ret.found
    /\ sessions[last_op.sid].ghost.ingested > 30
    /\ last_op.ret.enhanced_data.total_frames = 30

\* history: the ingested frames of session s that declared phase
PhaseFrames(s, phase) ==
    Cardinality({i \in 1..Len(s.ghost.phases) : s.ghost.phases[i] = phase})

(* C19: phase_movement_map holds, for every non-empty phase label some
   ingested frame declared, one sample per such frame, and nothing else
   (frames without a phase add nothing); phase_analysis reports exactly
   those phases, with that number as sample_count. *)
C19_PhaseSampleCounts ==
    /\ \A sid \in Registered :
          LET s == sessions[sid]
          IN  /\ DOMAIN s.phase_movement_map
                     = {ph \in Range(s.ghost.phases) : ph # PhaseNone /\ ph # ""}
              /\ \A ph \in DOMAIN s.phase_movement_map :
                     Len(s.phase_movement_map[ph]) = PhaseFrames(s, ph)
    /\ (last_op.op = "process_ai_analysis" /\ last_op.ret.found) =>
          LET s == sessions[last_op.sid]
              phase_analysis == last_op.ret.enhanced_data.phase_analysis
          IN  /\ DOMAIN phase_analysis
                     = {ph \in Range(s.ghost.phases) : ph # PhaseNone /\ ph # ""}
              /\ \A ph \in DOMAIN phase_analysis :
                     phase_analysis[ph].sample_count = PhaseFrames(s, ph)

(* C19's case: an analysis of a session with more samples of a phase than
   movement_history holds, and with frames that declared no phase *)
C19_Witness ==
    /\ last_op.op = "process_ai_analysis"
    /\ last_op.ret.found
    /\ "inhale" \in DOMAIN last_op.ret.enhanced_data.phase_analysis
    /\ last_op.ret.enhanced_data.phase_analysis["inhale"].sample_count > 30
    /\ PhaseNone \in Range(sessions[last_op.sid].ghost.phases)

(* C20 as stated: a process_frame call leaves every other registered
   session registered and as it was. *)
C20_OtherSessionsUntouched ==
    [][last_op'.op = "process_frame" =>
          \A sid \in DOMAIN sessions \ {last_op'.sid} :
              /\ sid \in DOMAIN sessions'
              /\ sessions'[sid] = sessions[sid]]_vars

(* C20 amended: a process_frame call creates no other session and leaves
   every other session that stays registered as it was; the other sessions
   it removes are those its opportunistic sweep finds created more than an
   hour ago. *)
C20_OtherSessionsUnchangedOrSwept ==
    [][last_op'.op = "process_frame" =>
          /\ \A sid \in DOMAIN sessions' \ {last_op'.sid} :
                /\ sid \in DOMAIN sessions
                /\ sessions'[sid] = sessions[sid]
          /\ \A sid \in DOMAIN sessions \ (DOMAIN sessions' \cup {last_op'.sid}) :
                /\ now - last_cleanup >= 300
                /\ sessions[sid].created_at < now - 3600]_vars

\* C20's case: a frame was ingested while another session is registered
C20_Witness ==
    /\ last_op.op = "process_frame"
    /\ last_op.ret.face_detected
    /\ Registered \ {last_op.sid} # {}

(* C22 as stated: when the computation of movement, posture or breathing
   rate raises for a frame with a detected face, the frame still gets a
   successful response with the safe default for that metric (0 or None),
   and it is ingested into the session. *)
C22_MetricFaultsHandledLocally ==
    (/\ last_op.op = "process_frame"
     /\ cur.decodable
     /\ cur.face.n > 0
     /\ cur.faults # {}
     /\ cur.faults \subseteq {"movement", "posture", "breathing"})
    => /\ last_op.ret.success
       /\ last_op.ret.ingested
       /\ "movement" \in cur.faults => last_op.ret.movement_level = 0
       /\ "posture" \in cur.faults => last_op.ret.posture_score = 0
       /\ "breathing" \in cur.faults => last_op.ret.breathing_rate = None

(* C23: process_frame returns a response for the request's session id and
   never raises; when the session lookup, the decoding, the detection or an
   unhandled metric computation raises, the response has success = false and
   an error text, and every other response has success = true and no error. *)
C23_ProcessFrameNeverRaises ==
    last_op.op = "process_frame" =>
        /\ ~last_op.ret.raised
        /\ last_op.ret.session_id = last_op.sid
        /\ (~cur.decodable \/ cur.faults \cap {"session", "detect"} # {}) =>
               (~last_op.ret.success /\ last_op.ret.error # NoText)
        /\ last_op.ret.success <=> last_op.ret.error = NoText

(* C23's case: the movement computation of a frame of a streamed session
   raised, and the response of the frame reports the failure *)
C23_Witness ==
    /\ last_op.op = "process_frame"
    /\ "movement" \in cur.faults
    /\ ~last_op.ret.success
    /\ last_op.ret.error = "movement"
    /\ last_op.ret.session_id = StreamSid
    /\ ~last_op.ret.raised

(* the session of id sid is between the first and the last mutation of a
   running process_frame call *)
Torn(sid) ==
    /\ frame_task.pc = "running"
    /\ frame_task.sid = sid
    /\ sessions[sid] # frame_task.stages[1]
    /\ sessions[sid] # frame_task.stages[Len(frame_task.stages)]

(* C21: a summary request for a session is never served while a
   process_frame call on that session is between its first and its last
   mutation of the session, and the summary it computes is the summary of
   the session as the last completed frame left it. *)
C21_SummaryNeverSeesTornUpdate ==
    [][(last_op'.op = "get_session_summary" /\ last_op'.sid \in DOMAIN sessions)
       => /\ ~Torn(last_op'.sid)
          /\ (~last_op'.ret.cached /\ last_op'.ret.status = 200) =>
                 /\ frame_task.pc = "idle"
                 /\ last_op'.ret.result =
                        get_session_summary(sessions[last_op'.sid], now)]_vars

(* C21's case: a summary computed for a session right after a frame of the
   session went through all its mutations *)
C21_Witness ==
    /\ last_op.op = "get_session_summary"
    /\ last_op.ret.status = 200
    /\ ~last_op.ret.cached
    /\ last_op.sid \in DOMAIN sessions
    /\ Len(sessions[last_op.sid].landmark_history) >= 2
    /\ frame_task = IdleTask

(* C24: the background task never ends, and after a pass of its loop raised,
   a later pass is executed to its end. *)
C24_LoopSurvivesFailedSweep ==
    /\ [](sweep_due # Terminated)
    /\ (last_op.op = "cleanup_failed") ~> (last_op.op = "cleanup_inactive_sessions")

(* C24's case: a pass of the background task raised after it had removed an
   expired session, and the task sleeps until its next pass *)
C24_Witness ==
    /\ last_op.op = "cleanup_failed"
    /\ last_op.removed # {}
    /\ sessions # <<>>
    /\ sweep_due = now + sweep_sleep

(* C25: a nonce is consumed by at most one successful verify; a verify that
   presents a nonce that is already marked used is rejected with status 400
   and leaves the nonce store as it was, whatever the signature and the
   time. *)
C25_NonceConsumedAtMostOnce ==
    /\ \A n \in DOMAIN siwe_hist.consumed : siwe_hist.consumed[n] <= 1
    /\ \A n \in DOMAIN siwe_hist.consumed :
           siwe_hist.consumed[n] = 1 => (n \in DOMAIN nonce_store /\ nonce_store[n].used)
    /\ (/\ last_op.op = "verify_signature"
        /\ last_op.ret.nonce \in DOMAIN last_op.ret.before
        /\ last_op.ret.before[last_op.ret.nonce].used)
       => /\ last_op.ret.status = 400
          /\ ~last_op.ret.ok
          /\ nonce_store = last_op.ret.before

(* C25's case: a verify with the owner's signature over the issued message
   is rejected because an earlier verify consumed the nonce *)
C25_Witness ==
    /\ last_op.op = "verify_signature"
    /\ last_op.ret.detail = "Nonce already used"
    /\ last_op.ret.signature = Sign("0xBb", last_op.ret.message)
    /\ last_op.ret.message = build_siwe_message("0xBb", last_op.ret.nonce)
    /\ siwe_hist.issued[last_op.ret.nonce].requested = "0xBb"
    /\ siwe_hist.consumed[last_op.ret.nonce] = 1

(* C26: a verify of a well-formed message whose nonce was never issued, or
   was issued more than 300 s ago, gets status 400 and no ok; when the nonce
   was issued, is past its TTL and was not consumed, it is not in the nonce
   store after the verify. *)
C26_UnknownOrExpiredNonceRejected ==
    (last_op.op = "verify_signature" /\ last_op.ret.message # MalformedMessage) =>
        LET n == last_op.ret.message.nonce
            issued == n \in DOMAIN siwe_hist.issued
            past == issued /\ now > siwe_hist.issued[n].at + NONCE_TTL_SECONDS
        IN  /\ (~issued \/ past) => (last_op.ret.status = 400 /\ ~last_op.ret.ok)
            /\ (past /\ siwe_hist.consumed[n] = 0) => n \notin DOMAIN nonce_store
            /\ (issued /\ ~past /\ n \in DOMAIN last_op.ret.before)
                   => n \in DOMAIN nonce_store

(* C26's case: the owner's verify of an unused nonce past its TTL is
   rejected and removes the nonce *)
C26_Witness ==
    /\ last_op.op = "verify_signature"
    /\ last_op.ret.detail = "Nonce expired"
    /\ last_op.ret.nonce \in DOMAIN last_op.ret.before
    /\ last_op.ret.nonce \notin DOMAIN nonce_store
    /\ last_op.ret.signature = Sign("0xBb", last_op.ret.message)
    /\ last_op.ret.message = build_siwe_message("0xBb", last_op.ret.nonce)
    /\ siwe_hist.issued[last_op.ret.nonce].requested = "0xBb"

(* C27: a verify succeeds only when the signature was made over the presented
   message by the key holder whose address, in lower case, is both the address
   line of the message and the address the nonce was issued to; the address
   of the response is that address. *)
C27_VerifyBindsSignerMessageAndNonce ==
    (last_op.op = "verify_signature" /\ last_op.ret.status = 200) =>
        LET n == last_op.ret.nonce
        IN  /\ n \in DOMAIN siwe_hist.issued
            /\ last_op.ret.signature.message = last_op.ret.message
            /\ Lower[last_op.ret.signature.signer] = Lower[last_op.ret.message.address]
            /\ Lower[last_op.ret.signature.signer] = Lower[siwe_hist.issued[n].requested]
            /\ last_op.ret.address = Lower[siwe_hist.issued[n].requested]

(* C27's case: a successful verify of a nonce issued to one address, in a
   run in which another nonce was issued to another address *)
C27_Witness ==
    /\ last_op.op = "verify_signature"
    /\ last_op.ret.status = 200
    /\ last_op.ret.address = "0xaa"
    /\ last_op.ret.message.address = "0xAA"
    /\ \E n \in DOMAIN siwe_hist.issued : siwe_hist.issued[n].requested = "0xBb"

(* C28: in main_production the table active_sessions never holds more than
   max_concurrent_sessions entries, under every interleaving of start, frame
   (before and after its upload is read), stop, cleanup and clock steps; a
   start request that finds the table full gets 503 and leaves the table as
   it was. *)
C28_ProdTableNeverExceedsCapacity ==
    /\ Cardinality(DOMAIN active_sessions) <= prod_max_concurrent_sessions
    /\ (/\ last_op.op = "start_session"
        /\ Cardinality(DOMAIN last_op.ret.before) >= prod_max_concurrent_sessions)
       => /\ last_op.ret.status = 503
          /\ active_sessions = last_op.ret.before

(* C28's case: a start request for a new session is rejected by a full
   table while a frame of a registered session waits for its upload *)
C28_Witness ==
    /\ last_op.op = "start_session"
    /\ last_op.ret.status = 503
    /\ last_op.sid \notin DOMAIN active_sessions
    /\ Cardinality(DOMAIN active_sessions) = prod_max_concurrent_sessions
    /\ prod_inflight # {}

(* C29 as stated: a session of main_production that has had no frame for
   longer than session_timeout is eventually removed from active_sessions
   by the cleanup task, so a start request that the full table rejected can
   eventually succeed without anybody stopping a session. *)
C29_IdleSessionEventuallyRemoved ==
    \A sid \in ProdSessionIds :
        (sid \in DOMAIN active_sessions /\ prod_inactive(active_sessions[sid], now))
        ~> (sid \notin DOMAIN active_sessions
            \/ ~prod_inactive(active_sessions[sid], now))

(* C30 as stated: a frame of a registered session whose bytes are no image
   is answered with status 400 and the detail 'Invalid image data'. *)
C30_UndecodableFrameIs400 ==
    (/\ last_op.op = "process_vision_frame"
     /\ last_op.ret.status # 404
     /\ ~last_op.ret.decodable)
    => /\ last_op.ret.status = 400
       /\ last_op.ret.detail = "Invalid image data"

(* C31: a summary request for a registered session is answered from the
   cache only when the cache holds a summary for the session that was stored
   less than 60 s before, and then the cache stays as it is; in every other
   case the answer is the summary computed from the session as it is now,
   and it is stored in the cache with the time of the request. *)
C31_CachedSummaryYoungerThanTtl ==
    [][(last_op'.op = "get_session_summary" /\ last_op'.ret.status = 200) =>
          LET sid == last_op'.sid
              fresh == /\ sid \in DOMAIN ai_response_cache
                       /\ now - ai_response_cache[sid].timestamp < 60
          IN  /\ last_op'.ret.cached <=> fresh
              /\ fresh => /\ last_op'.ret.result = ai_response_cache[sid].result
                          /\ ai_response_cache' = ai_response_cache
              /\ ~fresh => /\ last_op'.ret.result =
                                 get_session_summary(sessions[sid], now)
                           /\ ai_response_cache'[sid] =
                                 [result |-> last_op'.ret.result, timestamp |-> now]]_vars

(* C31's case: a summary served from the cache 59 s after it was stored,
   for a session that ingested a frame in between *)
C31_Witness ==
    /\ last_op.op = "get_session_summary"
    /\ last_op.ret.status = 200
    /\ last_op.ret.cached
    /\ now - ai_response_cache[last_op.sid].timestamp = 59
    /\ last_op.ret.result.total_frames = 0
    /\ Len(sessions[last_op.sid].landmark_history) = 1

(* C36 as stated: a summary the endpoint returns for a session id was
   computed from the session that is registered under the id now, not from
   one that was removed: the creation time of the session it was computed
   from (the time it was stored in the cache less the duration it reports)
   is the creation time of the registered session. *)
C36_SummaryIsOfTheRegisteredSession ==
    (last_op.op = "get_session_summary" /\ last_op.ret.status = 200) =>
        ai_response_cache[last_op.sid].timestamp - last_op.ret.result.duration
            = sessions[last_op.sid].created_at

(* C32: the webhook calls subprocess.run only for a request whose signature
   is the sha256 HMAC of its payload under the webhook secret, whose event
   type is push and whose ref is refs/heads/main or refs/heads/master; the
   first step of every request is the signature check, and no payload is
   parsed and no handler runs for a request whose signature does not
   verify. *)
C32_DeployOnlyForVerifiedPushToMain ==
    last_op.op = "process_webhook" =>
        LET r == last_op.ret
            verified == r.signature = Hmac("sha256=", WEBHOOK_SECRET, r.payload)
        IN  /\ (\E i \in DOMAIN r.steps : r.steps[i] = "subprocess.run") =>
                   /\ verified
                   /\ r.event_type = "push"
                   /\ r.payload.ref \in {"refs/heads/main", "refs/heads/master"}
            /\ r.steps[1] = "verify_signature"
            /\ ~verified => r.steps = <<"verify_signature">>

(* C32's case: a verified push to master ran the deployment script, which
   failed *)
C32_Witness ==
    /\ last_op.op = "process_webhook"
    /\ last_op.ret.steps = <<"verify_signature", "json.loads",
                             "handle_push_event", "subprocess.run">>
    /\ last_op.ret.payload.ref = "refs/heads/master"
    /\ last_op.ret.result = "failed"

(* C33: no session ever holds more than one temporal snapshot, and the
   enhanced summary of every session reports the stability trend
   'insufficient_data'. *)
C33_AtMostOneSnapshot ==
    /\ \A sid \in DOMAIN sessions :
          /\ Len(sessions[sid].temporal_snapshots) <= 1
          /\ calculate_stability_trend(sessions[sid]) = "insufficient_data"
    /\ (last_op.op = "process_ai_analysis" /\ last_op.ret.found) =>
          /\ Len(last_op.ret.enhanced_data.temporal_progression) <= 1
          /\ last_op.ret.enhanced_data.movement_pattern.stability_trend
                 = "insufficient_data"

(* C33's case: the analysis of a session that took its snapshot and whose
   movement history has been full since, with more than 60 values appended
   to it in all *)
C33_Witness ==
    /\ last_op.op = "process_ai_analysis"
    /\ last_op.ret.found
    /\ Len(last_op.ret.enhanced_data.temporal_progression) = 1
    /\ Len(sessions[last_op.sid].movement_history) = 50
    /\ Len(sessions[last_op.sid].ghost.appended["movement_history"]) > 60

(* C34 as stated: in every state the confidence, posture and movement
   histories of a session have the same length. *)
C34_MetricHistoriesSameLength ==
    \A sid \in DOMAIN sessions :
        /\ Len(sessions[sid].confidence_history) = Len(sessions[sid].posture_history)
        /\ Len(sessions[sid].posture_history) = Len(sessions[sid].movement_history)

(* C35 as stated: avg_breathing_rate of a session's summary is None as long
   as no frame of the session returned a breathing rate, and when it is not
   None it is between 8 and 20 breaths per minute (800 and 2000
   hundredths). *)
C35_AvgBreathingRateNoneOrInRange ==
    (last_op.op = "process_ai_analysis" /\ last_op.ret.found) =>
        LET avg == last_op.ret.enhanced_data.avg_breathing_rate
            kinds == sessions[last_op.sid].ghost.breathing_kind
            produced == \E i \in DOMAIN kinds : kinds[i] = "rate"
        IN  /\ ~produced => avg = None
            /\ avg # None => (800 <= avg /\ avg <= 2000)

=============================================================================
